---- MODULE Spec2Model ----
(***************************************************************************)
(* The <panel-resize-handler> custom element: a draggable divider that     *)
(* resizes the adjacent sibling panel.  The repository holds two variants  *)
(* of the class:                                                           *)
(*   "once"  src/unnamed/part_000: attributes are read once, at mount;     *)
(*   "live"  src/frontend/src/handlers/resizeHandlers.ts: configuration is *)
(*           set by attributeChangedCallback, the direction is read from   *)
(*           the resize attribute on every operation.                      *)
(* One behaviour of the model is one instance of one variant.              *)
(*                                                                         *)
(* Widths are kept in hundredths of a pixel (Px), so that                  *)
(* window.innerWidth * (maxWidthPercent / 100) is exact.  The sibling's    *)
(* style.flexBasis is only ever written by the class, never read: the      *)
(* writes an event performs are recorded in ev.writes.  The width that     *)
(* getBoundingClientRect() reports is decided by the page's layout: it is  *)
(* an input of every read, and 0 for an element with display: none.        *)
(***************************************************************************)
EXTENDS Integers, Sequences, FiniteSets, TLC

VARIABLES
    variant,                 \* which of the two classes this instance is
    attrs,                   \* the element's attributes: name -> value (present ones)
    minWidth,                \* minWidth / MIN_WIDTH, px
    maxWidthPercent,         \* maxWidthPercent / MAX_WIDTH_PERCENT
    defaultWidth,            \* defaultWidth / DEFAULT_WIDTH, px
    resize,                  \* the resize field of the "once" class
    isCollapsable,
    isPanelCollapsed,
    isDragging,
    initialX,                \* px
    currentSiblingWidth,     \* Px
    connected,               \* the element is in the document
    previousElementSibling,
    nextElementSibling,
    display,                 \* style.display of each panel element
    backgroundColor,         \* the handle's style.backgroundColor
    cursor,                  \* document.body.style.cursor
    elListeners,             \* listeners registered on the handle
    docListeners,            \* listeners of this handle registered on document
    winListeners,            \* "resize" listeners on window: one throttle closure each
    timers,                  \* pending setTimeout callbacks, in the order they were set
    innerWidth,              \* window.innerWidth, px
    ev                       \* the last event and what its handlers did

vars == <<variant, attrs, minWidth, maxWidthPercent, defaultWidth, resize,
          isCollapsable, isPanelCollapsed, isDragging, initialX,
          currentSiblingWidth, connected, previousElementSibling,
          nextElementSibling, display, backgroundColor, cursor, elListeners,
          docListeners, winListeners, timers, innerWidth, ev>>

cfgVars == <<minWidth, maxWidthPercent, defaultWidth, resize, isCollapsable>>
dragVars == <<isDragging, initialX, currentSiblingWidth>>
styleVars == <<backgroundColor, cursor>>
domVars == <<connected, previousElementSibling, nextElementSibling>>
gateVars == <<winListeners, timers>>

----------------------------------------------------------------------------
(* Bounds of the model *)

MaxMounts == 2               \* connectedCallback runs at most this often

(* Program constants *)

Scale == 100                 \* maxWidthPercent / 100; also hundredths of a px
DEFAULT_MIN_WIDTH == 150
DEFAULT_MAX_WIDTH_PERCENT == 30
EXPAND_THRESHOLD == 50       \* newWidth > 50

Null == "null"
Px(n) == n * Scale

Variants == {"once", "live"}
Elements == {"a", "b"}
COLOR_HOVER_BG == "var(--resize-handler-hover-color , #baba69)"
COLOR_TRANSPARENT == "transparent"

----------------------------------------------------------------------------
(* Strings are sequences of characters; parseInt and toLowerCase work on   *)
(* them as the JavaScript functions do.                                    *)

S_left == <<"l", "e", "f", "t">>
S_right == <<"r", "i", "g", "h", "t">>
S_up == <<"u", "p">>
S_null == <<"n", "u", "l", "l">>
S_true == <<"t", "r", "u", "e">>
S_false == <<"f", "a", "l", "s", "e">>
S_FALSE == <<"F", "A", "L", "S", "E">>
S_empty == <<>>
S_0 == <<"0">>
S_40 == <<"4", "0">>
S_200 == <<"2", "0", "0">>
S_abc == <<"a", "b", "c">>
S_40px == <<" ", "4", "0", "p", "x">>

DigitVal == ("0" :> 0) @@ ("1" :> 1) @@ ("2" :> 2) @@ ("3" :> 3) @@ ("4" :> 4)
            @@ ("5" :> 5) @@ ("6" :> 6) @@ ("7" :> 7) @@ ("8" :> 8) @@ ("9" :> 9)

RECURSIVE SkipWhite(_)
SkipWhite(s) ==
    IF s # <<>> /\ Head(s) = " " THEN SkipWhite(Tail(s)) ELSE s

RECURSIVE DigitPrefix(_)
DigitPrefix(s) ==
    IF s # <<>> /\ Head(s) \in DOMAIN DigitVal
    THEN <<Head(s)>> \o DigitPrefix(Tail(s))
    ELSE <<>>

RECURSIVE DigitsValue(_, _)
DigitsValue(s, acc) ==
    IF s = <<>> THEN acc ELSE DigitsValue(Tail(s), acc * 10 + DigitVal[Head(s)])

(* parseInt(s): leading white space, an optional sign, the longest run of  *)
(* decimal digits; NaN (ok = FALSE) when there is no digit.  (A "0x"       *)
(* prefix, which parseInt reads as hexadecimal, is in none of the strings  *)
(* the attributes are set to here.)                                        *)
ParseInt(s) ==
    LET t == SkipWhite(s)
        signed == t # <<>> /\ Head(t) \in {"+", "-"}
        d == DigitPrefix(IF signed THEN Tail(t) ELSE t)
    IN IF d = <<>>
       THEN [ok |-> FALSE, val |-> 0]
       ELSE [ok |-> TRUE,
             val |-> IF signed /\ Head(t) = "-"
                     THEN 0 - DigitsValue(d, 0) ELSE DigitsValue(d, 0)]

(* parseInt(...) || dflt: NaN and 0 are falsy. *)
ParseOr(p, dflt) == IF p.ok /\ p.val # 0 THEN p.val ELSE dflt

LowerChar(c) ==
    CASE c = "F" -> "f" [] c = "A" -> "a" [] c = "L" -> "l"
      [] c = "S" -> "s" [] c = "E" -> "e" [] OTHER -> c

ToLowerCase(s) == [i \in 1..Len(s) |-> LowerChar(s[i])]

hasAttribute(name) == name \in DOMAIN attrs

(* getAttribute(name) || "" *)
AttrOrEmpty(name) == IF hasAttribute(name) THEN attrs[name] ELSE S_empty

(* DirOf taking every value but "left" for "right" *)
DirOfLenient(as, name) ==
    IF name \in DOMAIN as /\ as[name] = S_left THEN "left"
    ELSE IF name \in DOMAIN as THEN "right"
    ELSE Null

(* The direction a resize attribute value stands for; Null for none. *)
DirOf(as, name) ==
    IF name \in DOMAIN as /\ as[name] = S_left THEN "left"
    ELSE IF name \in DOMAIN as /\ as[name] = S_right THEN "right"
    ELSE Null

----------------------------------------------------------------------------
(* Inputs of the events *)

Xs == {0, 60}                                \* clientX of a mouse event, px
RectWidths == {Px(100), Px(400)}             \* widths a visible panel is laid out at
Viewports == {400, 1000}                     \* window.innerWidth, px
(* Panel "a" is the one before the handle, panel "b" the one after it;    *)
(* either may be absent.                                                  *)
SiblingPairs == {Null, "a"} \X {Null, "b"}

OBSERVED_ONCE == {}
OBSERVED_LIVE ==
    {"min-width", "max-width-percent", "default-width", "resize", "collapsable"}

observedAttributes == IF variant = "once" THEN OBSERVED_ONCE ELSE OBSERVED_LIVE

----------------------------------------------------------------------------
(* What an event did *)

FlexWrite(e, w) == [el |-> e, prop |-> "flex-basis", width |-> w, value |-> ""]
DisplayWrite(e, d) == [el |-> e, prop |-> "display", width |-> 0, value |-> d]

(* type: the event; handled: a listener of the handle ran; x: clientX;    *)
(* newWidth: the candidate width of a move that acted; writes: the style   *)
(* writes made, in order; threw: a handler raised; ran: runs of            *)
(* adjustPanelWidth; reads: the widths those runs read; dragging: the drag *)
(* flag when the event arrived.                                            *)
Event(t, h, x, nw, ws, th, rn) ==
    [type |-> t, handled |-> h, x |-> x, newWidth |-> nw, writes |-> ws,
     threw |-> th, ran |-> rn, reads |-> <<>>, dragging |-> isDragging]

Quiet(t) == Event(t, FALSE, 0, <<>>, <<>>, FALSE, 0)
Handled(t, ws) == Event(t, TRUE, 0, <<>>, ws, FALSE, 0)

RECURSIVE ApplyDisplay(_, _)
ApplyDisplay(d, ws) ==
    IF ws = <<>> THEN d
    ELSE ApplyDisplay(IF Head(ws).prop = "display"
                      THEN [d EXCEPT ![Head(ws).el] = Head(ws).value] ELSE d,
                      Tail(ws))

----------------------------------------------------------------------------
(* The pure parts of the handlers *)

Min(a, b) == IF a <= b THEN a ELSE b
Max(a, b) == IF a >= b THEN a ELSE b

(* this.resize of the "once" class; getAttribute("resize") of the "live" one *)
Direction == IF variant = "once" THEN resize ELSE DirOf(attrs, "resize")

getTargetElement(dir, prev, next) ==
    IF dir = "left" /\ prev # Null THEN prev
    ELSE IF dir = "right" /\ next # Null THEN next
    ELSE Null

TargetElement == getTargetElement(Direction, previousElementSibling, nextElementSibling)

(* getBoundingClientRect().width: the layout's width w, 0 when not rendered *)
RectWidth(e, w) == IF display[e] = "none" THEN 0 ELSE w

(* window.innerWidth * (maxWidthPercent / 100) *)
MaxWidth(vw, pct) == (Px(vw) * pct) \div Scale

(* NewWidth without the sign flip of the "right" direction *)
NewWidthSameSign(dir, base, x, x0) == base + Px(x - x0)

NewWidth(dir, base, x, x0) ==
    IF dir = "left" THEN base + Px(x - x0) ELSE base - Px(x - x0)

(* ClampedWidth without the lower bound *)
ClampedWidthNoMin(newWidth, maxWidth, minW) == Min(newWidth, maxWidth)

ClampedWidth(newWidth, maxWidth, minW) == Max(Px(minW), Min(newWidth, maxWidth))

(* The collapse policy of handleMouseMove: the flag and the display writes *)
CollapseHides(newWidth, minW) == newWidth <= Px(minW)
(* CollapseShows re-expanding at the configured minimum instead of 50 *)
CollapseShowsAtMin(collapsed, newWidth) == collapsed /\ newWidth > Px(minWidth)

CollapseShows(collapsed, newWidth) == collapsed /\ newWidth > Px(EXPAND_THRESHOLD)

Collapse(t, newWidth, collapsable, collapsed, minW) ==
    LET hides == collapsable /\ CollapseHides(newWidth, minW)
        c1 == IF hides THEN TRUE ELSE collapsed
        shows == collapsable /\ CollapseShows(c1, newWidth)
    IN [collapsed |-> IF shows THEN FALSE ELSE c1,
        writes |-> (IF hides THEN <<DisplayWrite(t, "none")>> ELSE <<>>)
                   \o (IF shows THEN <<DisplayWrite(t, "block")>> ELSE <<>>)]

(* adjustPanelWidth writing the maximum also when it is below minWidth *)
AdjustWritesDegenerate(t, w, vw, pct, minW) ==
    IF t # Null /\ w > MaxWidth(vw, pct)
    THEN <<FlexWrite(t, MaxWidth(vw, pct))>>
    ELSE <<>>

(* adjustPanelWidth: the writes it makes, w being the width it reads *)
AdjustWrites(t, w, vw, pct, minW) ==
    IF t # Null /\ w > MaxWidth(vw, pct) /\ MaxWidth(vw, pct) > Px(minW)
    THEN <<FlexWrite(t, MaxWidth(vw, pct))>>
    ELSE <<>>

(* applyDefaultWidth / the flexBasis assignment of connectedCallback *)
DefaultWrites(t, dw) == IF t # Null THEN <<FlexWrite(t, Px(dw))>> ELSE <<>>

----------------------------------------------------------------------------
Init ==
    /\ variant \in Variants
    /\ attrs = <<>>
    /\ minWidth = DEFAULT_MIN_WIDTH
    /\ maxWidthPercent = DEFAULT_MAX_WIDTH_PERCENT
    /\ defaultWidth = DEFAULT_MIN_WIDTH
    /\ resize = Null
    /\ isCollapsable = FALSE
    /\ isPanelCollapsed = FALSE
    /\ isDragging = FALSE
    /\ initialX = 0
    /\ currentSiblingWidth = 0
    /\ connected = FALSE
    /\ previousElementSibling = Null
    /\ nextElementSibling = Null
    /\ display = [e \in Elements |-> ""]
    /\ backgroundColor = ""
    /\ cursor = ""
    /\ elListeners = {}
    /\ docListeners = {}
    /\ winListeners = <<>>
    /\ timers = <<>>
    /\ innerWidth \in Viewports
    /\ ev = Quiet("constructor")

----------------------------------------------------------------------------
(* Attributes *)

(* initializeFromAttributes of the "once" class: the configuration it leaves *)
InitMinWidth ==
    IF hasAttribute("min-width")
    THEN ParseOr(ParseInt(AttrOrEmpty("min-width")), DEFAULT_MIN_WIDTH)
    ELSE minWidth

InitMaxWidthPercent ==
    IF hasAttribute("max-width-percent")
    THEN ParseOr(ParseInt(AttrOrEmpty("max-width-percent")), DEFAULT_MAX_WIDTH_PERCENT)
    ELSE maxWidthPercent

InitDefaultWidth ==
    IF hasAttribute("initial-width")
    THEN ParseOr(ParseInt(AttrOrEmpty("initial-width")), InitMinWidth)
    ELSE defaultWidth

InitResize ==
    IF DirOf(attrs, "resize") # Null THEN DirOf(attrs, "resize") ELSE resize

InitCollapsable == hasAttribute("collapsable")

(* attributeChangedCallback(name, oldValue, newValue); newValue is <<>> for *)
(* null (the attribute was removed) and <<s>> for the string s.             *)
ValueString(newValue) == IF newValue = <<>> THEN S_null ELSE newValue[1]

CallbackThrows(name, newValue) ==
    variant = "live" /\ name = "collapsable" /\ newValue = <<>>

attributeChangedCallback(name, newValue) ==
    IF variant = "once"
    THEN UNCHANGED cfgVars
    ELSE /\ minWidth' =
              IF name = "min-width"
              THEN ParseOr(ParseInt(ValueString(newValue)), DEFAULT_MIN_WIDTH)
              ELSE minWidth
         /\ maxWidthPercent' =
              IF name = "max-width-percent"
              THEN ParseOr(ParseInt(ValueString(newValue)), DEFAULT_MAX_WIDTH_PERCENT)
              ELSE maxWidthPercent
         /\ defaultWidth' =
              IF name = "default-width"
              THEN ParseOr(ParseInt(ValueString(newValue)), minWidth)
              ELSE defaultWidth
         /\ isCollapsable' =
              IF name = "collapsable" /\ newValue # <<>>
              THEN ToLowerCase(newValue[1]) # S_false
              ELSE isCollapsable
         /\ UNCHANGED resize

AttributeChanged(name, newValue) ==
    /\ IF name \in observedAttributes
       THEN /\ attributeChangedCallback(name, newValue)
            /\ ev' = Event("attribute", TRUE, 0, <<>>, <<>>,
                           CallbackThrows(name, newValue), 0)
       ELSE /\ UNCHANGED cfgVars
            /\ ev' = Quiet("attribute")
    /\ UNCHANGED <<variant, isPanelCollapsed, dragVars, domVars, display,
                   styleVars, elListeners, docListeners, gateVars, innerWidth>>

SetAttribute(name, value) ==
    /\ attrs' = (name :> value) @@ attrs
    /\ AttributeChanged(name, <<value>>)

RemoveAttribute(name) ==
    /\ hasAttribute(name)
    /\ attrs' = [n \in DOMAIN attrs \ {name} |-> attrs[n]]
    /\ AttributeChanged(name, <<>>)

----------------------------------------------------------------------------
(* Mount and unmount *)

HANDLE_EVENTS == {"mouseenter", "mouseleave", "mousedown"}
DOCUMENT_EVENTS == {"mousemove", "mouseup"}

(* throttle(func, limit): a fresh closure, inThrottle not yet set (falsy) *)
throttle == [inThrottle |-> FALSE]

(* window.removeEventListener("resize", throttle(...)): the closure is new, *)
(* so it is no listener of the window and nothing is removed.             *)
RemoveFreshListener(ls) == ls

(* p, n: where the element is inserted; w: the width adjustPanelWidth reads *)
connectedCallback(p, n, w) ==
    /\ ~connected
    /\ Len(winListeners) < MaxMounts
    /\ connected' = TRUE
    /\ previousElementSibling' = p
    /\ nextElementSibling' = n
    /\ IF variant = "once"
       THEN /\ minWidth' = InitMinWidth
            /\ maxWidthPercent' = InitMaxWidthPercent
            /\ defaultWidth' = InitDefaultWidth
            /\ resize' = InitResize
            /\ isCollapsable' = InitCollapsable
            /\ LET t == getTargetElement(InitResize, p, n)
               IN ev' = Handled("connected",
                          DefaultWrites(t, InitDefaultWidth)
                          \o AdjustWrites(t, IF t = Null THEN 0 ELSE RectWidth(t, w),
                                          innerWidth, InitMaxWidthPercent, InitMinWidth))
       ELSE /\ UNCHANGED cfgVars
            /\ LET t == getTargetElement(DirOf(attrs, "resize"), p, n)
               IN ev' = Handled("connected",
                          AdjustWrites(t, IF t = Null THEN 0 ELSE RectWidth(t, w),
                                       innerWidth, maxWidthPercent, minWidth)
                          \o DefaultWrites(t, defaultWidth))
    /\ elListeners' = elListeners \cup HANDLE_EVENTS
    /\ winListeners' = Append(winListeners, throttle)
    /\ UNCHANGED <<variant, attrs, isPanelCollapsed, dragVars, display, styleVars,
                   docListeners, timers, innerWidth>>

disconnectedCallback ==
    /\ connected
    /\ connected' = FALSE
    /\ previousElementSibling' = Null
    /\ nextElementSibling' = Null
    /\ elListeners' = elListeners \ HANDLE_EVENTS
    /\ docListeners' = docListeners \ DOCUMENT_EVENTS
    /\ winListeners' = RemoveFreshListener(winListeners)
    /\ ev' = Handled("disconnected", <<>>)
    /\ UNCHANGED <<variant, attrs, cfgVars, isPanelCollapsed, dragVars, display,
                   styleVars, timers, innerWidth>>

(* The page changes the handle's siblings *)
SiblingsChange(p, n) ==
    /\ connected
    /\ <<p, n>> # <<previousElementSibling, nextElementSibling>>
    /\ previousElementSibling' = p
    /\ nextElementSibling' = n
    /\ ev' = Quiet("siblings")
    /\ UNCHANGED <<variant, attrs, cfgVars, isPanelCollapsed, dragVars, connected,
                   display, styleVars, elListeners, docListeners, gateVars,
                   innerWidth>>

----------------------------------------------------------------------------
(* Hover and drag *)

handleMouseEnter ==
    /\ "mouseenter" \in elListeners
    /\ backgroundColor' = COLOR_HOVER_BG
    /\ cursor' = "col-resize"
    /\ ev' = Handled("mouseenter", <<>>)
    /\ UNCHANGED <<variant, attrs, cfgVars, isPanelCollapsed, dragVars, domVars,
                   display, elListeners, docListeners, gateVars, innerWidth>>

(* handleMouseLeave without its test of the drag flag *)
handleMouseLeaveUnguarded ==
    /\ "mouseleave" \in elListeners
    /\ backgroundColor' = COLOR_TRANSPARENT
    /\ cursor' = "default"
    /\ ev' = Handled("mouseleave", <<>>)
    /\ UNCHANGED <<variant, attrs, cfgVars, isPanelCollapsed, dragVars, domVars,
                   display, elListeners, docListeners, gateVars, innerWidth>>

handleMouseLeave ==
    /\ "mouseleave" \in elListeners
    /\ IF ~isDragging
       THEN /\ backgroundColor' = COLOR_TRANSPARENT
            /\ cursor' = "default"
       ELSE UNCHANGED styleVars
    /\ ev' = Handled("mouseleave", <<>>)
    /\ UNCHANGED <<variant, attrs, cfgVars, isPanelCollapsed, dragVars, domVars,
                   display, elListeners, docListeners, gateVars, innerWidth>>

(* The "once" class returns before doing anything when no target resolves; *)
(* the "live" class starts the drag and only skips the width capture.      *)
DownStartsDrag(t) == variant = "live" \/ t # Null

(* x: clientX; w: the width the layout gives the target *)
handleMouseDown(x, w) ==
    /\ "mousedown" \in elListeners
    /\ LET t == TargetElement
       IN IF DownStartsDrag(t)
          THEN /\ backgroundColor' = COLOR_HOVER_BG
               /\ cursor' = "col-resize"
               /\ isDragging' = TRUE
               /\ initialX' = x
               /\ currentSiblingWidth' =
                    IF t # Null THEN RectWidth(t, w) ELSE currentSiblingWidth
               /\ docListeners' = docListeners \cup DOCUMENT_EVENTS
          ELSE UNCHANGED <<styleVars, dragVars, docListeners>>
    /\ ev' = Event("mousedown", TRUE, x, <<>>, <<>>, FALSE, 0)
    /\ UNCHANGED <<variant, attrs, cfgVars, isPanelCollapsed, domVars, display,
                   elListeners, gateVars, innerWidth>>

(* MoveActs without the check of the target *)
MoveActsUnchecked(t) == isDragging

(* handleMouseMove acts only while dragging and with a target *)
MoveActs(t) == isDragging /\ t # Null

handleMouseMove(x) ==
    LET t == TargetElement
        newWidth == NewWidth(Direction, currentSiblingWidth, x, initialX)
        c == Collapse(t, newWidth, isCollapsable, isPanelCollapsed, minWidth)
        clampedWidth == ClampedWidth(newWidth, MaxWidth(innerWidth, maxWidthPercent),
                                     minWidth)
    IN IF MoveActs(t)
       THEN /\ isPanelCollapsed' = c.collapsed
            /\ display' = ApplyDisplay(display, c.writes)
            /\ ev' = Event("mousemove", TRUE, x, <<newWidth>>,
                           c.writes \o <<FlexWrite(t, clampedWidth)>>, FALSE, 0)
       ELSE /\ UNCHANGED <<isPanelCollapsed, display>>
            /\ ev' = Event("mousemove", TRUE, x, <<>>, <<>>, FALSE, 0)

(* A mousemove on the document: handled when the listener is registered *)
MouseMove(x) ==
    /\ IF "mousemove" \in docListeners
       THEN handleMouseMove(x)
       ELSE /\ UNCHANGED <<isPanelCollapsed, display>>
            /\ ev' = Event("mousemove", FALSE, x, <<>>, <<>>, FALSE, 0)
    /\ UNCHANGED <<variant, attrs, cfgVars, dragVars, domVars, styleVars,
                   elListeners, docListeners, gateVars, innerWidth>>

(* handleMouseUp leaving the drag flag set *)
handleMouseUpKeepsFlag ==
    /\ backgroundColor' = COLOR_TRANSPARENT
    /\ cursor' = "default"
    /\ docListeners' = docListeners \ DOCUMENT_EVENTS
    /\ UNCHANGED <<isDragging, initialX, currentSiblingWidth>>
    /\ ev' = Handled("mouseup", <<>>)

(* handleMouseUp detaching its mousemove listener only *)
handleMouseUpDetachesMove ==
    /\ backgroundColor' = COLOR_TRANSPARENT
    /\ isDragging' = FALSE
    /\ cursor' = "default"
    /\ docListeners' = docListeners \ {"mousemove"}
    /\ UNCHANGED <<initialX, currentSiblingWidth>>
    /\ ev' = Handled("mouseup", <<>>)

(* handleMouseUp leaving its document listeners registered *)
handleMouseUpKeepsListeners ==
    /\ backgroundColor' = COLOR_TRANSPARENT
    /\ isDragging' = FALSE
    /\ cursor' = "default"
    /\ UNCHANGED <<initialX, currentSiblingWidth, docListeners>>
    /\ ev' = Handled("mouseup", <<>>)

handleMouseUp ==
    /\ backgroundColor' = COLOR_TRANSPARENT
    /\ isDragging' = FALSE
    /\ cursor' = "default"
    /\ docListeners' = docListeners \ DOCUMENT_EVENTS
    /\ UNCHANGED <<initialX, currentSiblingWidth>>
    /\ ev' = Handled("mouseup", <<>>)

(* A mouseup on the document *)
MouseUp ==
    /\ IF "mouseup" \in docListeners
       THEN handleMouseUp
       ELSE /\ UNCHANGED <<dragVars, styleVars, docListeners>>
            /\ ev' = Quiet("mouseup")
    /\ UNCHANGED <<variant, attrs, cfgVars, isPanelCollapsed, domVars, display,
                   elListeners, gateVars, innerWidth>>

----------------------------------------------------------------------------
(* The viewport reactor behind its throttle gates *)

(* The closure throttle returns: it calls func when inThrottle is falsy *)
GateOpen(g) == ~g.inThrottle

RECURSIVE ResizeWrites(_, _, _, _)
ResizeWrites(ls, ws, t, vw) ==
    IF ls = <<>> THEN <<>>
    ELSE (IF GateOpen(Head(ls))
          THEN AdjustWrites(t, IF t = Null THEN 0 ELSE RectWidth(t, Head(ws)),
                            vw, maxWidthPercent, minWidth)
          ELSE <<>>)
         \o ResizeWrites(Tail(ls), Tail(ws), t, vw)

(* The widths the listeners that run read from the target, in order *)
RECURSIVE ResizeReads(_, _, _)
ResizeReads(ls, ws, t) ==
    IF ls = <<>> THEN <<>>
    ELSE (IF GateOpen(Head(ls)) /\ t # Null
          THEN <<RectWidth(t, Head(ws))>> ELSE <<>>)
         \o ResizeReads(Tail(ls), Tail(ws), t)

OpenGates(ls) == {i \in 1..Len(ls) : GateOpen(ls[i])}

RECURSIVE NewTimers(_, _)
NewTimers(ls, i) ==
    IF i > Len(ls) THEN <<>>
    ELSE (IF GateOpen(ls[i]) THEN <<[gate |-> i, due |-> FALSE]>> ELSE <<>>)
         \o NewTimers(ls, i + 1)

(* The window is resized to vw and fires "resize"; ws[i] is the width the  *)
(* i-th listener reads                                                     *)
WindowResize(vw, ws) ==
    /\ innerWidth' = vw
    /\ winListeners' = [i \in 1..Len(winListeners) |-> [inThrottle |-> TRUE]]
    /\ timers' = timers \o NewTimers(winListeners, 1)
    /\ ev' = [Event("resize", OpenGates(winListeners) # {}, 0, <<>>,
                    ResizeWrites(winListeners, ws, TargetElement, vw), FALSE,
                    Cardinality(OpenGates(winListeners)))
               EXCEPT !.reads = ResizeReads(winListeners, ws, TargetElement)]
    /\ UNCHANGED <<variant, attrs, cfgVars, isPanelCollapsed, dragVars, domVars,
                   display, styleVars, elListeners, docListeners>>

(* Time passes up to the deadline of the oldest timer that is not yet due *)
Elapse ==
    /\ \E k \in 1..Len(timers) :
          /\ ~timers[k].due
          /\ \A j \in 1..(k - 1) : timers[j].due
          /\ timers' = [timers EXCEPT ![k].due = TRUE]
    /\ ev' = Quiet("elapse")
    /\ UNCHANGED <<variant, attrs, cfgVars, isPanelCollapsed, dragVars, domVars,
                   display, styleVars, elListeners, docListeners, winListeners,
                   innerWidth>>

(* The timer's callback leaving inThrottle set *)
TimerFiresKeepsGate ==
    /\ timers # <<>>
    /\ Head(timers).due
    /\ timers' = Tail(timers)
    /\ ev' = Handled("timer", <<>>)
    /\ UNCHANGED <<variant, attrs, cfgVars, isPanelCollapsed, dragVars, domVars,
                   display, styleVars, elListeners, docListeners, winListeners,
                   innerWidth>>

(* setTimeout(() => (inThrottle = false), limit) runs *)
TimerFires ==
    /\ timers # <<>>
    /\ Head(timers).due
    /\ winListeners' = [winListeners EXCEPT ![Head(timers).gate].inThrottle = FALSE]
    /\ timers' = Tail(timers)
    /\ ev' = Handled("timer", <<>>)
    /\ UNCHANGED <<variant, attrs, cfgVars, isPanelCollapsed, dragVars, domVars,
                   display, styleVars, elListeners, docListeners, innerWidth>>

----------------------------------------------------------------------------
(* The events, with the inputs each is tried on *)

SetResize(values) == \E v \in values : SetAttribute("resize", v)
SetMinWidth(values) == \E v \in values : SetAttribute("min-width", v)
SetCollapsable(values) == \E v \in values : SetAttribute("collapsable", v)
Remove(names) == \E name \in names : RemoveAttribute(name)
Mount == \E pn \in SiblingPairs, w \in RectWidths : connectedCallback(pn[1], pn[2], w)
Unmount == disconnectedCallback
Siblings == \E pn \in SiblingPairs : SiblingsChange(pn[1], pn[2])
Down == \E x \in Xs, w \in RectWidths : handleMouseDown(x, w)
Move == \E x \in Xs : MouseMove(x)
Resized ==
    \E vw \in Viewports :
       \E ws \in [1..Len(winListeners) -> RectWidths] : WindowResize(vw, ws)

(* The "once" class reads its attributes in connectedCallback only: an     *)
(* attribute changed while it is mounted acts as one changed right before  *)
(* the next mount, which is when the drag specifications change it.        *)
ReadAtMount == variant = "once" => ~connected

(* The whole component *)
Next ==
    \/ SetResize({S_left, S_right, S_up})
    \/ SetMinWidth({S_40})
    \/ SetCollapsable({S_true, S_FALSE})
    \/ Remove({"resize", "min-width", "collapsable"})
    \/ Mount
    \/ Unmount
    \/ Siblings
    \/ handleMouseEnter
    \/ handleMouseLeave
    \/ Down
    \/ Move
    \/ MouseUp
    \/ Resized
    \/ Elapse
    \/ TimerFires

Spec == Init /\ [][Next]_vars

(* Dragging and collapsing: the pointer events on a mounted handle whose   *)
(* direction, minimum width and collapsable flag change.  Left out are the *)
(* hover events and the window's resize events, which read and write none  *)
(* of the drag state.                                                      *)
NextDrag ==
    \/ ReadAtMount /\ SetResize({S_left, S_right})
    \/ ReadAtMount /\ SetMinWidth({S_40})
    \/ ReadAtMount /\ SetCollapsable({S_true, S_FALSE})
    \/ ReadAtMount /\ Remove({"resize", "min-width", "collapsable"})
    \/ Mount
    \/ Unmount
    \/ Siblings
    \/ Down
    \/ Move
    \/ MouseUp

SpecDrag == Init /\ [][NextDrag]_vars

(* Hover feedback around a drag *)
NextHover ==
    \/ SetResize({S_left})
    \/ Mount
    \/ Unmount
    \/ Siblings
    \/ handleMouseEnter
    \/ handleMouseLeave
    \/ Down
    \/ Move
    \/ MouseUp

SpecHover == Init /\ [][NextHover]_vars

(* The viewport reactor: window resize events through the throttle gates,  *)
(* with drags in between; the resize attribute is valid, invalid or absent *)
NextWindow ==
    \/ SetResize({S_left, S_up})
    \/ Remove({"resize"})
    \/ Mount
    \/ Unmount
    \/ Siblings
    \/ Down
    \/ Move
    \/ MouseUp
    \/ Resized
    \/ Elapse
    \/ TimerFires

SpecWindow == Init /\ [][NextWindow]_vars

(* The throttle gates under the browser's timers: time passes, and a timer *)
(* whose delay has passed runs its callback.  The pointer events, which    *)
(* neither read nor write a gate, are left out.                            *)
NextGate ==
    \/ SetResize({S_left, S_up})
    \/ Remove({"resize"})
    \/ Mount
    \/ Unmount
    \/ Siblings
    \/ Resized
    \/ Elapse
    \/ TimerFires

SpecGate ==
    Init /\ [][NextGate]_vars /\ WF_vars(Elapse) /\ WF_vars(TimerFires)

(* Configuration: the numeric attributes, set to strings that parse, parse *)
(* to 0 or do not parse, and the mounts that read them                     *)
NumericValues == {S_0, S_200, S_abc, S_40px}

NextAttr ==
    \/ \E v \in NumericValues : SetAttribute("min-width", v)
    \/ \E v \in NumericValues : SetAttribute("max-width-percent", v)
    \/ \E v \in NumericValues : SetAttribute("initial-width", v)
    \/ Remove({"min-width", "max-width-percent", "initial-width"})
    \/ SetResize({S_left})
    \/ Mount
    \/ Unmount

SpecAttr == Init /\ [][NextAttr]_vars

----------------------------------------------------------------------------
(* The claims *)

FlexWrites == {i \in DOMAIN ev.writes : ev.writes[i].prop = "flex-basis"}
ViewportMax == MaxWidth(innerWidth, maxWidthPercent)

(* C1, as stated: every width a drag-move or a window resize writes lies   *)
(* between minWidth and viewportWidth * maxWidthPercent / 100.             *)
C1_Original ==
    ev.type \in {"mousemove", "resize"} =>
        \A i \in FlexWrites :
            Px(minWidth) <= ev.writes[i].width /\ ev.writes[i].width <= ViewportMax

(* C1, amended: every width a drag-move or a window resize writes is at    *)
(* least minWidth; it is at most viewportWidth * maxWidthPercent / 100     *)
(* when that maximum is not below minWidth, and is minWidth otherwise.     *)
C1_Clamped ==
    ev.type \in {"mousemove", "resize"} =>
        \A i \in FlexWrites :
            /\ Px(minWidth) <= ev.writes[i].width
            /\ ViewportMax >= Px(minWidth) => ev.writes[i].width <= ViewportMax
            /\ ViewportMax < Px(minWidth) => ev.writes[i].width = Px(minWidth)

(* A drag-move whose candidate is above a maximum that is above minWidth   *)
C1_Witness ==
    /\ ev.type = "mousemove"
    /\ ev.newWidth # <<>>
    /\ ev.newWidth[1] > ViewportMax
    /\ ViewportMax > Px(minWidth)
    /\ FlexWrites # {}

(* C2, as stated: with collapsible set, after a drag-move whose candidate  *)
(* width is <= minWidth the target is hidden and the collapsed flag is true *)
C2_Original ==
    (/\ ev.type = "mousemove"
     /\ ev.newWidth # <<>>
     /\ isCollapsable
     /\ ev.newWidth[1] <= Px(minWidth))
    => (display[TargetElement] = "none" /\ isPanelCollapsed)

(* C3: in a drag-move of a collapsible handle whose collapsed flag is set, *)
(* a candidate width <= 50 keeps the flag set and a hidden target hidden,  *)
(* and a candidate width > 50 shows the target and clears the flag,        *)
(* whatever minWidth is.                                                   *)
C3_Hysteresis ==
    [][(/\ ev'.type = "mousemove"
        /\ ev'.newWidth # <<>>
        /\ isCollapsable
        /\ isPanelCollapsed)
       => IF ev'.newWidth[1] > Px(50)
          THEN ~isPanelCollapsed' /\ display'[TargetElement] = "block"
          ELSE /\ isPanelCollapsed'
               /\ display[TargetElement] = "none"
                    => display'[TargetElement] = "none"]_vars

(* A collapsed panel re-expanded at a candidate above 50 under minWidth 40 *)
C3_Witness ==
    /\ ev.type = "mousemove"
    /\ ev.newWidth # <<>>
    /\ minWidth < 50
    /\ ev.newWidth[1] > Px(50)
    /\ ev.writes[1] = DisplayWrite(TargetElement, "block")
    /\ ~isPanelCollapsed

(* C4, as stated: the window resize events of one 100ms window, and so a  *)
(* single resize event, make at most one layout write.                     *)
C4_Original == ev.type = "resize" => Len(ev.writes) <= 1

(* C5: the candidate width of a drag-move is the base width plus           *)
(* (clientX - initialX) for "left" and minus it for "right"; the move      *)
(* changes neither value, which only a pointer-down sets.                  *)
C5_Candidate ==
    [][/\ (ev'.type = "mousemove" /\ ev'.newWidth # <<>>)
          => /\ ev'.newWidth[1] =
                  IF Direction = "left"
                  THEN currentSiblingWidth + Px(ev'.x - initialX)
                  ELSE currentSiblingWidth - Px(ev'.x - initialX)
             /\ UNCHANGED <<initialX, currentSiblingWidth>>
       /\ (initialX' # initialX \/ currentSiblingWidth' # currentSiblingWidth)
          => ev'.type = "mousedown" /\ initialX' = ev'.x]_vars

(* A "right" drag with the pointer left of its origin: the candidate grows *)
C5_Witness ==
    /\ ev.type = "mousemove"
    /\ ev.newWidth # <<>>
    /\ Direction = "right"
    /\ ev.x < initialX
    /\ ev.newWidth[1] = currentSiblingWidth + Px(60)

(* C6: a pointer-up while the handle is not dragging raises no error and   *)
(* changes nothing: the drag state, the collapsed flag, the highlight, the *)
(* cursor, the listeners and the panels are as before.                     *)
C6_IdleUp ==
    [][(ev'.type = "mouseup" /\ ~isDragging)
       => /\ ~ev'.threw
          /\ ev'.writes = <<>>
          /\ UNCHANGED <<dragVars, isPanelCollapsed, styleVars, display,
                         docListeners, elListeners, cfgVars>>]_vars

(* A pointer-up over the highlighted handle with no drag going on *)
C6_Witness ==
    /\ ev.type = "mouseup"
    /\ ~ev.handled
    /\ ~isDragging
    /\ backgroundColor = COLOR_HOVER_BG
    /\ cursor = "col-resize"

(* C7: a pointer-move while dragging with no target raises no error,       *)
(* writes nothing and leaves the collapsed flag and the drag state alone.  *)
C7_NoTarget ==
    [][(ev'.type = "mousemove" /\ isDragging /\ TargetElement = Null)
       => /\ ~ev'.threw
          /\ ev'.writes = <<>>
          /\ UNCHANGED <<dragVars, isPanelCollapsed, display>>]_vars

(* The move handler ran in a drag whose target has been removed *)
C7_Witness ==
    /\ ev.type = "mousemove"
    /\ ev.handled
    /\ variant = "once"
    /\ isDragging
    /\ resize = "left"
    /\ currentSiblingWidth > 0
    /\ previousElementSibling = Null

(* C8, as stated: the window holds one resize listener of the handle while *)
(* it is mounted and none while it is not, so a resize event runs the      *)
(* viewport reactor at most once.                                          *)
C8_Original ==
    /\ Len(winListeners) = IF connected THEN 1 ELSE 0
    /\ ev.type = "resize" => ev.ran <= 1

(* C9: while the resize attribute is invalid and no mount has read a valid *)
(* one, no target resolves, no event writes to a panel and none raises an  *)
(* error.                                                                  *)
C9_Invalid ==
    (hasAttribute("resize") /\ attrs["resize"] = S_up /\ resize = Null)
    => /\ TargetElement = Null
       /\ ev.writes = <<>>
       /\ ~ev.threw

(* A mounted handle between two panels whose reactor ran on a resize event *)
C9_Witness ==
    /\ hasAttribute("resize") /\ attrs["resize"] = S_up /\ resize = Null
    /\ connected
    /\ previousElementSibling = "a"
    /\ nextElementSibling = "b"
    /\ ev.type = "resize"
    /\ ev.ran >= 1

(* C10, as stated: a numeric attribute that parses gives its value, also   *)
(* when that is 0, and the default (150, 30, minWidth) is used only when   *)
(* it does not parse.  The "once" class resolves at mount, the "live"      *)
(* class whenever the attribute changes.                                   *)
Resolved(name, field, dflt) ==
    hasAttribute(name) =>
        field = IF ParseInt(attrs[name]).ok THEN ParseInt(attrs[name]).val ELSE dflt

C10_Original ==
    (variant = "live" \/ ev.type = "connected") =>
        /\ Resolved("min-width", minWidth, DEFAULT_MIN_WIDTH)
        /\ Resolved("max-width-percent", maxWidthPercent, DEFAULT_MAX_WIDTH_PERCENT)
        /\ Resolved("initial-width", defaultWidth, minWidth)

(* C11, as stated: the width a mount applies to its target is the value of *)
(* the initial-width attribute when that is a valid integer, and the       *)
(* configured minWidth otherwise.                                          *)
InitialWidthAsStated ==
    IF hasAttribute("initial-width") /\ ParseInt(attrs["initial-width"]).ok
    THEN Px(ParseInt(attrs["initial-width"]).val)
    ELSE Px(minWidth)

C11_Original ==
    (ev.type = "connected" /\ TargetElement # Null)
    => \E i \in FlexWrites : ev.writes[i].width = InitialWidthAsStated

(* C12, as stated: a pointer-down on an idle handle with no target leaves  *)
(* it idle: the drag flag stays false, the origin and the base width are   *)
(* not captured and no document listener is attached.                      *)
C12_Original ==
    [][(ev'.type = "mousedown" /\ ~isDragging /\ TargetElement = Null)
       => /\ ~isDragging'
          /\ UNCHANGED <<initialX, currentSiblingWidth, docListeners>>]_vars

(* C13: the document holds at most one mousemove and one mouseup listener  *)
(* of the handle; they are attached by a pointer-down only and detached by *)
(* a pointer-up or a teardown only; an idle handle has none attached; and  *)
(* a teardown with none attached changes nothing of the drag state.        *)
C13_DocListeners ==
    [][/\ docListeners' \subseteq DOCUMENT_EVENTS
       /\ ~isDragging' => docListeners' = {}
       /\ (docListeners' # docListeners /\ docListeners' # {})
          => ev'.type = "mousedown" /\ docListeners' = DOCUMENT_EVENTS
       /\ (docListeners' # docListeners /\ docListeners' = {})
          => ev'.type \in {"mouseup", "disconnected"}
       /\ (ev'.type = "disconnected" /\ docListeners = {})
          => UNCHANGED <<docListeners, dragVars, styleVars>>]_vars

(* A teardown of an idle handle, after a drag that a pointer-up ended *)
C13_Witness ==
    /\ ev.type = "disconnected"
    /\ ~isDragging
    /\ initialX = 60
    /\ currentSiblingWidth > 0
    /\ docListeners = {}

(* C14: while the handle is dragging its highlight colour and the          *)
(* col-resize cursor are applied; pointer-enter and pointer-leave during a *)
(* drag change neither, and in a drag only a pointer-up clears them.       *)
C14_Highlight ==
    [][/\ isDragging'
          => backgroundColor' = COLOR_HOVER_BG /\ cursor' = "col-resize"
       /\ (isDragging /\ ev'.type \in {"mouseenter", "mouseleave"})
          => UNCHANGED <<styleVars, isDragging>>
       /\ (isDragging /\ (backgroundColor' # backgroundColor \/ cursor' # cursor))
          => ev'.type = "mouseup" /\ ~isDragging']_vars

(* The pointer left the handle in the middle of a drag *)
C14_Witness ==
    /\ ev.type = "mouseleave"
    /\ ev.handled
    /\ isDragging
    /\ "mouseup" \in docListeners
    /\ backgroundColor = COLOR_HOVER_BG

(* C15: a run of the viewport reactor on a window resize writes the        *)
(* maximum viewportWidth * maxWidthPercent / 100 to the target exactly     *)
(* when the width it reads is above the maximum and the maximum is above   *)
(* minWidth; otherwise, and when no target resolves, it writes nothing;    *)
(* the event changes neither the drag state, the collapsed flag nor any    *)
(* panel's visibility.                                                     *)
C15_Reactor ==
    [][ev'.type = "resize"
       => /\ \A i \in DOMAIN ev'.writes :
                ev'.writes[i] = FlexWrite(TargetElement, ViewportMax')
          /\ Len(ev'.writes) =
                Cardinality({j \in DOMAIN ev'.reads :
                                /\ ev'.reads[j] > ViewportMax'
                                /\ ViewportMax' > Px(minWidth)})
          /\ TargetElement = Null => ev'.reads = <<>>
          /\ TargetElement # Null => Len(ev'.reads) = ev'.ran
          /\ UNCHANGED <<dragVars, isPanelCollapsed, display, cfgVars>>]_vars

(* The reactor shrank a 400px panel to the 300px maximum of a 1000px window *)
C15_Witness ==
    /\ ev.type = "resize"
    /\ ev.reads = <<Px(400)>>
    /\ innerWidth = 1000
    /\ ev.writes = <<FlexWrite(TargetElement, Px(300))>>
    /\ isDragging

(* C16: a pointer-down on a handle that is dragging, its document          *)
(* listeners attached, leaves one drag and one pair of listeners; the next *)
(* pointer-up ends the drag and leaves no document listener; and a         *)
(* pointer-move on an idle handle reaches no listener and changes nothing. *)
C16_SecondDown ==
    [][/\ (ev'.type = "mousedown" /\ isDragging /\ docListeners = DOCUMENT_EVENTS)
          => isDragging' /\ docListeners' = DOCUMENT_EVENTS
       /\ (ev'.type = "mouseup" /\ isDragging /\ docListeners = DOCUMENT_EVENTS)
          => ~isDragging' /\ docListeners' = {}
       /\ (ev'.type = "mousemove" /\ ~isDragging)
          => /\ ~ev'.handled
             /\ ev'.writes = <<>>
             /\ UNCHANGED <<dragVars, isPanelCollapsed, display, docListeners>>]_vars

(* A second pointer-down, at another position, arrived in mid-drag *)
C16_Witness ==
    /\ ev.type = "mousedown"
    /\ ev.dragging
    /\ isDragging
    /\ initialX = 60
    /\ TargetElement # Null
    /\ currentSiblingWidth > 0
    /\ docListeners = DOCUMENT_EVENTS

(* C17, as stated: no handler of the component raises an error, whatever   *)
(* the sequence of events and the attribute values.                        *)
C17_Original == ~ev.threw

(* C18: a throttle gate never stays closed.  A resize event that finds a   *)
(* gate open runs the reactor through it at once, closes it and sets one   *)
(* timer for it; a closed gate has exactly one timer pending and is        *)
(* eventually open again; and when no timer is pending a resize event runs *)
(* the reactor through every listener.                                     *)
GateTimers(i) == {k \in DOMAIN timers : timers[k].gate = i}
GateClosed(i) == i \in DOMAIN winListeners /\ winListeners[i].inThrottle

C18_Reopens ==
    /\ [][/\ \A i \in DOMAIN winListeners' :
                Cardinality(GateTimers(i)') =
                    IF winListeners'[i].inThrottle THEN 1 ELSE 0
          /\ ev'.type = "resize"
             => /\ Len(timers') = Len(timers) + ev'.ran
                /\ \A i \in DOMAIN winListeners : winListeners'[i].inThrottle
                /\ timers = <<>> => ev'.ran = Len(winListeners)
          /\ ev'.type = "timer"
             => ~winListeners'[Head(timers).gate].inThrottle]_vars
    /\ \A i \in 1..MaxMounts : GateClosed(i) ~> ~GateClosed(i)

(* The timer of the only gate has fired: the gate is open again *)
C18_Witness ==
    /\ ev.type = "timer"
    /\ Len(winListeners) = 1
    /\ ~winListeners[1].inThrottle
    /\ timers = <<>>
    /\ connected

(* C19, as stated: whenever the drag flag is set the document's mousemove  *)
(* and mouseup listeners of the handle are attached, so that the next      *)
(* pointer-up ends the drag.                                               *)
C19_Original == isDragging => docListeners = DOCUMENT_EVENTS

(* C20, as stated: the collapsed flag is set exactly when the target that  *)
(* resolves now is hidden (display none); and while collapsible is false   *)
(* the flag is not set and a drag-move writes no display.                  *)
C20_Original ==
    /\ TargetElement # Null
       => (isPanelCollapsed <=> display[TargetElement] = "none")
    /\ ~isCollapsable
       => /\ ~isPanelCollapsed
          /\ \A i \in DOMAIN ev.writes : ev.writes[i].prop # "display"
====
